---- MODULE Spec2Model ----
(***************************************************************************)
(* Model of qiskit_transpiler_tools: the transpilation pipeline            *)
(* TranspilerSabreMapomaticDD (transpiler.py), the decoupling pass manager *)
(* builder PassManager_DD_ALAP_XX (dd_passmanager.py) and the default cost *)
(* function transpile_cost_depthcnot (transpiler.py).                      *)
(*                                                                         *)
(* Python values are records tagged by the field py.  The external         *)
(* collaborators (compiler.transpile, mapomatic, the pass manager) are     *)
(* opaque: each call is recorded in log with the arguments the code hands  *)
(* over, its result is a record naming what it was computed from, and it   *)
(* may raise.                                                              *)
(***************************************************************************)
EXTENDS Integers, Sequences, FiniteSets, TLC

VARIABLES
    self,         \* the pipeline object's fields (transpiler.py 95-103)
    expected,     \* ghost: the fields as constructed, backend as last set
    pc,           \* position of the running transpile call, or "idle"
    circuits,     \* the argument of the running call (the caller's object)
    arg0,         \* ghost: the argument as it was when the call started
    circuits_,    \* local: the unified list (line 120-122)
    opts,         \* locals of lines 124-147 (options after defaults)
    trans_circs,  \* local list of working circuits (line 150)
    i,            \* number of completed iterations of the current loop
    trans_qc,     \* local: candidates of the latest vendor run (line 153)
    costs,        \* local: their costs (line 157)
    best_pos,     \* local: the selected position, 1-based (line 158)
    deflated,     \* local list of line 165
    result,       \* the returned value, once returned
    raised,       \* the exception that ended the call, or "none"
    log,          \* ghost: external calls made so far by the running call
    cost_in,      \* argument of a direct transpile_cost_depthcnot call
    cost_out      \* its result

vars == <<self, expected, pc, circuits, arg0, circuits_, opts, trans_circs, i,
          trans_qc, costs, best_pos, deflated, result, raised, log,
          cost_in, cost_out>>

(***************************************************************************)
(* Bounds                                                                  *)
(***************************************************************************)
MaxCircs == 2     \* longest input sequence
MaxRuns  == 2     \* largest num_transpilations
MaxGates == 3     \* longest circuit handed to the cost function directly

(***************************************************************************)
(* Python values                                                           *)
(***************************************************************************)
PyNone == [py |-> "None"]
PyInt(n) == [py |-> "int", v |-> n]
PyList(s) == [py |-> "list", elems |-> s]
PyFunction(n) == [py |-> "function", name |-> n]

Range(f) == {f[x] : x \in DOMAIN f}

\* A circuit of the caller, told apart by id.
InputCircuit(n) == [py |-> "QuantumCircuit", id |-> n]

\* Types of ordered sequences a caller can pass.
SeqTypes == {"list", "tuple"}

Inputs ==
    {InputCircuit(1)} \cup
    {[py |-> t, elems |-> [k \in 1..n |-> InputCircuit(k)]] :
        t \in SeqTypes, n \in 0..MaxCircs}

IsSequence(c) == c.py \in SeqTypes

(***************************************************************************)
(* Circuits as the cost function sees them: a sequence of gates.           *)
(***************************************************************************)
Gate(n, q) == [name |-> n, qubits |-> q]

GateSet ==
    {Gate("cx", <<0, 1>>), Gate("cx", <<1, 0>>), Gate("h", <<0>>), Gate("x", <<1>>)}

\* circuit.count_ops(): occurrences per gate name, only for names that occur.
count_ops(circuit) ==
    LET names == {circuit.data[k].name : k \in 1..Len(circuit.data)}
    IN  [n \in names |->
            Cardinality({k \in 1..Len(circuit.data) : circuit.data[k].name = n})]

Max(S) == CHOOSE m \in S : \A x \in S : x <= m

\* circuit.depth(): each gate sits one level above the deepest of its qubits.
\* Levels(data, k) is the level reached on qubits 0 and 1 after k gates.
RECURSIVE Levels(_, _)
Levels(data, k) ==
    IF k = 0 THEN <<0, 0>>
    ELSE LET prev == Levels(data, k - 1)
             used == Range(data[k].qubits)
             top  == Max({prev[q + 1] : q \in used}) + 1
         IN  <<IF 0 \in used THEN top ELSE prev[1],
               IF 1 \in used THEN top ELSE prev[2]>>

depth(circuit) == Max(Range(Levels(circuit.data, Len(circuit.data))))

weight_depth_default == 1
weight_cnot_default  == 20

\* Faulty variant: the weights change places.
transpile_cost_swapped(circuit, weight_depth, weight_cnot) ==
    LET num_cnots == IF "cx" \in DOMAIN count_ops(circuit)
                     THEN count_ops(circuit)["cx"] ELSE 0
    IN  weight_cnot * depth(circuit) + weight_depth * num_cnots

transpile_cost_depthcnot(circuit, weight_depth, weight_cnot) ==
    LET num_cnots == IF "cx" \in DOMAIN count_ops(circuit)
                     THEN count_ops(circuit)["cx"] ELSE 0
    IN  weight_depth * depth(circuit) + weight_cnot * num_cnots

\* The fixture of the tests: cx(0, 1); cx(1, 0) on two qubits.
TWO_CNOTS ==
    [py |-> "QuantumCircuit",
     data |-> <<Gate("cx", <<0, 1>>), Gate("cx", <<1, 0>>)>>]

\* A user-supplied cost function (my_cost_transpile of the class docstring):
\* one representative, the depth alone.
my_cost_transpile(circuit) == depth(circuit)

\* cost_transpile(circ) of line 157.
cost_transpile_call(f, circ) ==
    IF f = PyFunction("transpile_cost_depthcnot")
    THEN transpile_cost_depthcnot(circ, weight_depth_default, weight_cnot_default)
    ELSE my_cost_transpile(circ)

(***************************************************************************)
(* The pipeline's configuration (TranspilerSabreMapomaticDD.__init__)      *)
(***************************************************************************)
Backends == {"backend_a", "backend_b"}

\* The level and the two cost functions, varied together: all defaults, or
\* all supplied by the caller.
Forwarded ==
    {[optimization_level |-> 0,
      cost_transpile     |-> PyNone,
      cost_mapomatic     |-> PyNone],
     [optimization_level |-> 3,
      cost_transpile     |-> PyFunction("my_cost_transpile"),
      cost_mapomatic     |-> PyFunction("my_cost_mapomatic")]}

\* A pass manager handed in at construction.
SuppliedPlan == [py |-> "PassManager", origin |-> "caller"]

\* Seed lists for K runs: absent, one too short, exact, one too long.
SeedLists(K) ==
    {PyNone} \cup
    {PyList([k \in 1..n |-> PyInt(k)]) : n \in {K - 1, K, K + 1}}

\* The pipelines constructed with num_transpilations = K.  All are built
\* for backend_a; backend_b comes in through the setter.
ConfigsFor(K) ==
    {[backend            |-> "backend_a",
      optimization_level |-> f.optimization_level,
      num_transpilations |-> K,
      seed_transpiler    |-> s,
      cost_transpile     |-> f.cost_transpile,
      apply_mapomatic    |-> mm,
      cost_mapomatic     |-> f.cost_mapomatic,
      apply_dd           |-> dd,
      dd_passmanager     |-> pm] :
        f \in Forwarded, s \in SeedLists(K),
        mm \in BOOLEAN,
        dd \in BOOLEAN,
        pm \in {PyNone, SuppliedPlan}}

Configs == UNION {ConfigsFor(K) : K \in 1..MaxRuns}

(***************************************************************************)
(* TranspilerSabreMapomaticDD.transpile, lines 119-147                     *)
(***************************************************************************)
\* Lines 119-122: unify to list format.
Unify(c) == IF c.py # "list" THEN <<c>> ELSE c.elems

\* Lines 124-134: the options are read into locals of the same names.
ReadOptions(s) == s

\* Faulty variant: the length check of line 140 is gone.
SeedsOkUnchecked(o) == TRUE

\* Lines 137-140: the precondition on a supplied seed list.
SeedsOk(o) ==
    \/ o.seed_transpiler = PyNone
    \/ Len(o.seed_transpiler.elems) >= o.num_transpilations

\* Lines 137-138 and 142-143: default arguments.
DefaultArguments(o) ==
    [o EXCEPT
        !.seed_transpiler =
            IF @ = PyNone
            THEN PyList([k \in 1..o.num_transpilations |-> PyNone]) ELSE @,
        !.cost_transpile =
            IF @ = PyNone THEN PyFunction("transpile_cost_depthcnot") ELSE @]

\* Faulty variant: a plan is built whenever decoupling is on, supplied or not.
NeedsPlanAlways(o) == o.apply_dd

\* Line 145.
NeedsPlan(o) == o.apply_dd /\ o.dd_passmanager = PyNone

\* PassManager_DD_ALAP_XX(backend).get_pass_manager(): the plan it returns.
get_pass_manager(backend) ==
    [py              |-> "PassManager",
     origin          |-> "PassManager_DD_ALAP_XX",
     durations       |-> backend,
     dd_sequence     |-> <<"x", "x">>,
     pulse_alignment |-> backend]

\* The external calls get_pass_manager makes, in order.
get_pass_manager_calls(backend) ==
    <<[op |-> "InstructionDurations.from_backend", backend |-> backend],
      [op |-> "backend.configuration", backend |-> backend],
      [op |-> "PassManager", backend |-> backend]>>

\* Faulty variant: the plan built at line 147 is kept on the pipeline.
StorePlanOnSelf(s, plan) == [s EXCEPT !.dd_passmanager = plan]

\* Line 147 assigns the local dd_passmanager; the pipeline's field is not written.
StorePlan(s, plan) == s

(***************************************************************************)
(* External collaborators                                                  *)
(***************************************************************************)
\* What the vendor transpile routine can return for one run.
Forms == {TWO_CNOTS.data, <<Gate("h", <<0>>), Gate("cx", <<0, 1>>), Gate("x", <<1>>)>>}

\* The argument a keyword has for run k of a vendor call: a list is taken
\* entry by entry, an absent keyword is the vendor's default.
KwargOfRun(kwargs, key, k) ==
    IF key \notin DOMAIN kwargs THEN PyNone
    ELSE IF kwargs[key].py = "list"
         THEN IF k <= Len(kwargs[key].elems) THEN kwargs[key].elems[k] ELSE PyNone
         ELSE kwargs[key]

\* One circuit returned by compiler.transpile: what it was compiled from and with.
Transpiled(circ, backend, kwargs, k) ==
    [py                 |-> "QuantumCircuit",
     from               |-> circ,
     backend            |-> backend,
     run                |-> k,
     optimization_level |-> KwargOfRun(kwargs, "optimization_level", k),
     seed_transpiler    |-> KwargOfRun(kwargs, "seed_transpiler", k),
     initial_layout     |-> KwargOfRun(kwargs, "initial_layout", k)]

\* compiler.transpile(list, backend, **kwargs): one result per circuit, in
\* order; data[k] is the gate sequence the vendor comes up with in run k.
RECURSIVE TranspiledUpTo(_, _, _, _, _)
TranspiledUpTo(circs, backend, kwargs, data, n) ==
    IF n = 0 THEN <<>>
    ELSE Append(TranspiledUpTo(circs, backend, kwargs, data, n - 1),
                Transpiled(circs[n], backend, kwargs, n) @@ [data |-> data[n]])

compiler_transpile(circs, backend, kwargs, data) ==
    TranspiledUpTo(circs, backend, kwargs, data, Len(circs))

\* Entries of log.  A circuit argument is named by idx, the position in the
\* batch of the circuit it is or stems from; copies is how many circuits the
\* call is handed (0: one circuit, not in a list).
transpile_call(idx, copies, backend, kwargs) ==
    [op |-> "compiler.transpile", idx |-> idx, copies |-> copies,
     backend |-> backend, kwargs |-> kwargs]

deflate_call(idx) == [op |-> "mapomatic.deflate_circuit", idx |-> idx]

matching_layouts_call(idx, backend) ==
    [op |-> "mapomatic.matching_layouts", idx |-> idx, backend |-> backend]

evaluate_layouts_call(idx, backend, cost_function) ==
    [op |-> "mapomatic.evaluate_layouts", idx |-> idx, backend |-> backend,
     cost_function |-> cost_function]

run_call(idx, plan) == [op |-> "dd_passmanager.run", idx |-> idx, plan |-> plan]

deflate_circuit(qc) == [py |-> "QuantumCircuit", deflated |-> qc]

matching_layouts(small_qc, backend) == [py |-> "layouts", backend |-> backend]

\* evaluate_layouts returns the scored layouts best first; scores[0][0] is
\* the best layout.
evaluate_layouts(small_qc, layouts, backend, cost_function) ==
    <<<<[py |-> "layout", backend |-> layouts.backend, scored_on |-> backend,
         cost_function |-> cost_function], 0>>>>

\* dd_passmanager.run(circuit)
run_plan(plan, qc) == [py |-> "QuantumCircuit", padded |-> qc, plan |-> plan]

(***************************************************************************)
(* TranspilerSabreMapomaticDD.transpile, lines 149-192                     *)
(***************************************************************************)
\* Lines 155-156: the keywords of the repeated-seed runs.
Step1Kwargs(o) ==
    [optimization_level |-> PyInt(o.optimization_level),
     seed_transpiler    |-> o.seed_transpiler]

\* Line 180: the keywords of the pinned re-run.
RelayoutKwargs(o, best_layout) == [initial_layout |-> best_layout]

\* Line 153: [circuits_[i]]*num_transpilations
RECURSIVE Copies(_, _)
Copies(qc, n) == IF n = 0 THEN <<>> ELSE Append(Copies(qc, n - 1), qc)

\* Line 157: np.array([cost_transpile(circ) for circ in trans_qc])
RECURSIVE CostsUpTo(_, _, _)
CostsUpTo(f, tq, n) ==
    IF n = 0 THEN <<>>
    ELSE Append(CostsUpTo(f, tq, n - 1), cost_transpile_call(f, tq[n]))

Costs(f, tq) == CostsUpTo(f, tq, Len(tq))

Min(costs_) == CHOOSE m \in Range(costs_) : \A c \in Range(costs_) : m <= c

\* costs == min(costs), position by position.
RECURSIVE EqualUpTo(_, _, _)
EqualUpTo(costs_, m, n) ==
    IF n = 0 THEN <<>> ELSE Append(EqualUpTo(costs_, m, n - 1), costs_[n] = m)

RECURSIVE Indices(_)
Indices(n) == IF n = 0 THEN <<>> ELSE Append(Indices(n - 1), n)

\* (costs == min(costs)).nonzero()[0]: the positions of the minimum, ascending.
NonZero(mask) ==
    LET Hit(k) == mask[k]
    IN  SelectSeq(Indices(Len(mask)), Hit)

\* Faulty variant: the last position of the minimum is taken.
BestPosLast(costs_) ==
    LET hits == NonZero(EqualUpTo(costs_, Min(costs_), Len(costs_)))
    IN  hits[Len(hits)]

\* Line 158.
BestPos(costs_) ==
    NonZero(EqualUpTo(costs_, Min(costs_), Len(costs_)))[1]

\* Faulty variant: decoupling comes before the re-layout.
AfterStep1DDFirst(o) ==
    IF o.apply_dd THEN "dd" ELSE IF o.apply_mapomatic THEN "deflate" ELSE "return"

\* Lines 162 and 183, reached from the end of the loop of lines 152-159.
AfterStep1(o) ==
    IF o.apply_mapomatic THEN "deflate" ELSE IF o.apply_dd THEN "dd" ELSE "return"

\* Line 183, reached from the end of the loop of lines 171-180.
AfterMapomatic(o) == IF o.apply_dd THEN "dd" ELSE "return"

\* Lines 189-192: the result in the format of the input.
ReturnValue(c, tc) == IF c.py # "list" THEN tc[1] ELSE PyList(tc)

\* Faulty variant: the setter writes nothing.
backend_setter_noop(s, backend) == s

\* Lines 200-202.
backend_setter(s, backend) == [s EXCEPT !.backend = backend]

(***************************************************************************)
(* State machine                                                           *)
(***************************************************************************)
NoCostCall == [py |-> "None"]

Init ==
    /\ self \in Configs
    /\ expected = self
    /\ pc = "idle"
    /\ circuits = PyNone
    /\ arg0 = PyNone
    /\ circuits_ = <<>>
    /\ opts = PyNone
    /\ trans_circs = <<>>
    /\ i = 0
    /\ trans_qc = <<>>
    /\ costs = <<>>
    /\ best_pos = 0
    /\ deflated = <<>>
    /\ result = PyNone
    /\ raised = "none"
    /\ log = <<>>
    /\ cost_in = NoCostCall
    /\ cost_out = PyNone

Returned == pc \in {"done", "failed"}

\* transpile(circuits), lines 119-143.
Transpile(c) ==
    /\ pc = "idle"
    /\ circuits' = c
    /\ arg0' = c
    /\ circuits_' = Unify(c)
    /\ IF SeedsOk(ReadOptions(self))
       THEN /\ opts' = DefaultArguments(ReadOptions(self))
            /\ pc' = "line145"
            /\ raised' = "none"
       ELSE /\ opts' = ReadOptions(self)
            /\ pc' = "failed"
            /\ raised' = "AssertionError"
    /\ trans_circs' = <<>>
    /\ i' = 0
    /\ trans_qc' = <<>>
    /\ costs' = <<>>
    /\ best_pos' = 0
    /\ deflated' = <<>>
    /\ result' = PyNone
    /\ log' = <<>>
    /\ UNCHANGED <<self, expected, cost_in, cost_out>>

\* Lines 145-150.
BuildPlan ==
    /\ pc = "line145"
    /\ IF NeedsPlan(opts)
       THEN /\ opts' = [opts EXCEPT !.dd_passmanager = get_pass_manager(self.backend)]
            /\ self' = StorePlan(self, get_pass_manager(self.backend))
            /\ log' = log \o get_pass_manager_calls(self.backend)
       ELSE UNCHANGED <<opts, self, log>>
    /\ trans_circs' = <<>>
    /\ i' = 0
    /\ pc' = "step1"
    /\ UNCHANGED <<expected, circuits, arg0, circuits_, trans_qc, costs, best_pos,
                   deflated, result, raised, cost_in, cost_out>>

\* Lines 152-159, one iteration: the vendor returns any circuit per run.
Step1 ==
    /\ pc = "step1"
    /\ i < Len(circuits_)
    /\ \E data \in [1..opts.num_transpilations -> Forms] :
        LET copies == Copies(circuits_[i + 1], opts.num_transpilations)
            kwargs == Step1Kwargs(opts)
            tq     == compiler_transpile(copies, opts.backend, kwargs, data)
            cs     == Costs(opts.cost_transpile, tq)
        IN  /\ trans_qc' = tq
            /\ costs' = cs
            /\ best_pos' = BestPos(cs)
            /\ trans_circs' = Append(trans_circs, tq[BestPos(cs)])
            /\ log' = Append(log, transpile_call(i + 1, Len(copies), opts.backend, kwargs))
    /\ i' = i + 1
    /\ UNCHANGED <<self, expected, pc, circuits, arg0, circuits_, opts, deflated,
                   result, raised, cost_in, cost_out>>

\* The loop of lines 152-159 ends; lines 162 and 183 choose the next stage.
\* trans_qc, costs and best_pos are dead from here on.
Step1Done ==
    /\ pc = "step1"
    /\ i = Len(circuits_)
    /\ pc' = AfterStep1(opts)
    /\ i' = 0
    /\ trans_qc' = <<>>
    /\ costs' = <<>>
    /\ best_pos' = 0
    /\ UNCHANGED <<self, expected, circuits, arg0, circuits_, opts, trans_circs,
                   deflated, result, raised, log, cost_in, cost_out>>

\* Lines 165-168, one iteration.
Deflate ==
    /\ pc = "deflate"
    /\ i < Len(trans_circs)
    /\ deflated' = Append(deflated, deflate_circuit(trans_circs[i + 1]))
    /\ log' = Append(log, deflate_call(i + 1))
    /\ i' = i + 1
    /\ UNCHANGED <<self, expected, pc, circuits, arg0, circuits_, opts, trans_circs,
                   trans_qc, costs, best_pos, result, raised, cost_in, cost_out>>

DeflateDone ==
    /\ pc = "deflate"
    /\ i = Len(trans_circs)
    /\ pc' = "relayout"
    /\ i' = 0
    /\ UNCHANGED <<self, expected, circuits, arg0, circuits_, opts, trans_circs,
                   trans_qc, costs, best_pos, deflated, result, raised, log,
                   cost_in, cost_out>>

\* Lines 172-177 for one working circuit.
BestLayout(qc, o) ==
    LET small_qc == deflate_circuit(qc)
        layouts  == matching_layouts(small_qc, o.backend)
        scores   == evaluate_layouts(small_qc, layouts, o.backend, o.cost_mapomatic)
    IN  scores[1][1]

\* The external calls of one iteration of lines 171-180, in order.
RelayoutCalls(idx, qc, o) ==
    <<deflate_call(idx),
      matching_layouts_call(idx, o.backend),
      evaluate_layouts_call(idx, o.backend, o.cost_mapomatic),
      transpile_call(idx, 0, o.backend, RelayoutKwargs(o, BestLayout(qc, o)))>>

\* Lines 171-180, one iteration.
Relayout ==
    /\ pc = "relayout"
    /\ i < Len(circuits_)
    /\ trans_circs' =
          [trans_circs EXCEPT ![i + 1] =
              Transpiled(deflate_circuit(@), opts.backend,
                         RelayoutKwargs(opts, BestLayout(@, opts)), 1)]
    /\ log' = log \o RelayoutCalls(i + 1, trans_circs[i + 1], opts)
    /\ i' = i + 1
    /\ UNCHANGED <<self, expected, pc, circuits, arg0, circuits_, opts, trans_qc,
                   costs, best_pos, deflated, result, raised, cost_in, cost_out>>

RelayoutDone ==
    /\ pc = "relayout"
    /\ i = Len(circuits_)
    /\ pc' = AfterMapomatic(opts)
    /\ i' = 0
    /\ UNCHANGED <<self, expected, circuits, arg0, circuits_, opts, trans_circs,
                   trans_qc, costs, best_pos, deflated, result, raised, log,
                   cost_in, cost_out>>

\* Lines 184-185, one iteration.
ApplyDD ==
    /\ pc = "dd"
    /\ i < Len(circuits_)
    /\ trans_circs' = [trans_circs EXCEPT ![i + 1] =
                          run_plan(opts.dd_passmanager, trans_circs[i + 1])]
    /\ log' = Append(log, run_call(i + 1, opts.dd_passmanager))
    /\ i' = i + 1
    /\ UNCHANGED <<self, expected, pc, circuits, arg0, circuits_, opts, trans_qc,
                   costs, best_pos, deflated, result, raised, cost_in, cost_out>>

ApplyDDDone ==
    /\ pc = "dd"
    /\ i = Len(circuits_)
    /\ pc' = "return"
    /\ i' = 0
    /\ UNCHANGED <<self, expected, circuits, arg0, circuits_, opts, trans_circs,
                   trans_qc, costs, best_pos, deflated, result, raised, log,
                   cost_in, cost_out>>

\* Lines 188-192.
Return ==
    /\ pc = "return"
    /\ result' = ReturnValue(circuits, trans_circs)
    /\ pc' = "done"
    /\ UNCHANGED <<self, expected, circuits, arg0, circuits_, opts, trans_circs, i,
                   trans_qc, costs, best_pos, deflated, raised, log,
                   cost_in, cost_out>>

\* The next step makes an external call.
CallPending ==
    \/ pc = "line145" /\ NeedsPlan(opts)
    \/ pc \in {"step1", "relayout", "dd"} /\ i < Len(circuits_)
    \/ pc = "deflate" /\ i < Len(trans_circs)

\* An external collaborator raises: the error propagates (transpile has no
\* try/except), the call ends without a result and its frame is gone.
ExternalError ==
    /\ CallPending
    /\ pc' = "failed"
    /\ raised' = "external"
    /\ circuits_' = <<>>
    /\ opts' = PyNone
    /\ trans_circs' = <<>>
    /\ i' = 0
    /\ trans_qc' = <<>>
    /\ costs' = <<>>
    /\ best_pos' = 0
    /\ deflated' = <<>>
    /\ log' = <<>>
    /\ UNCHANGED <<self, expected, circuits, arg0, result, cost_in, cost_out>>

\* The call is over: the caller has its result or its exception, and the
\* frame of the call is gone.
Finish ==
    /\ Returned
    /\ pc' = "idle"
    /\ circuits' = PyNone
    /\ arg0' = PyNone
    /\ circuits_' = <<>>
    /\ opts' = PyNone
    /\ trans_circs' = <<>>
    /\ i' = 0
    /\ trans_qc' = <<>>
    /\ costs' = <<>>
    /\ best_pos' = 0
    /\ deflated' = <<>>
    /\ result' = PyNone
    /\ raised' = "none"
    /\ log' = <<>>
    /\ UNCHANGED <<self, expected, cost_in, cost_out>>

\* transpiler.backend = b, between calls (the code is single-threaded).
SetBackend(b) ==
    /\ pc = "idle"
    /\ self' = backend_setter(self, b)
    /\ expected' = [expected EXCEPT !.backend = b]
    /\ UNCHANGED <<pc, circuits, arg0, circuits_, opts, trans_circs, i, trans_qc,
                   costs, best_pos, deflated, result, raised, log>>
    /\ UNCHANGED <<cost_in, cost_out>>

Next ==
    \/ \E c \in Inputs : Transpile(c)
    \/ BuildPlan
    \/ Step1
    \/ Step1Done
    \/ Deflate
    \/ DeflateDone
    \/ Relayout
    \/ RelayoutDone
    \/ ApplyDD
    \/ ApplyDDDone
    \/ Return
    \/ ExternalError
    \/ Finish
    \/ \E b \in Backends : SetBackend(b)

Spec == Init /\ [][Next]_vars

(***************************************************************************)
(* Direct calls of transpile_cost_depthcnot (as in test_transpile_cost)    *)
(***************************************************************************)
BoundedSeq(S, n) == UNION {[1..k -> S] : k \in 0..n}

\* Weights a caller passes explicitly.
Weights == {0, 2, 5}

\* Arguments of a call: the weights are optional keywords.
CostArgs ==
    LET circs == {[py |-> "QuantumCircuit", data |-> d] : d \in BoundedSeq(GateSet, MaxGates)}
    IN  {[circuit |-> c] : c \in circs}
        \cup {[circuit |-> c, weight_depth |-> w] : c \in circs, w \in Weights}
        \cup {[circuit |-> c, weight_cnot |-> w] : c \in circs, w \in Weights}
        \cup {[circuit |-> c, weight_depth |-> w, weight_cnot |-> v] :
                c \in circs, w \in Weights, v \in Weights}

\* Lines 206-208: the call with its default arguments filled in.
CallCost(args) ==
    transpile_cost_depthcnot(
        args.circuit,
        IF "weight_depth" \in DOMAIN args THEN args.weight_depth ELSE weight_depth_default,
        IF "weight_cnot" \in DOMAIN args THEN args.weight_cnot ELSE weight_cnot_default)

InitCost ==
    /\ self = CHOOSE c \in Configs : TRUE
    /\ expected = self
    /\ pc = "idle"
    /\ circuits = PyNone
    /\ arg0 = PyNone
    /\ circuits_ = <<>>
    /\ opts = PyNone
    /\ trans_circs = <<>>
    /\ i = 0
    /\ trans_qc = <<>>
    /\ costs = <<>>
    /\ best_pos = 0
    /\ deflated = <<>>
    /\ result = PyNone
    /\ raised = "none"
    /\ log = <<>>
    /\ cost_in \in CostArgs
    /\ cost_out = PyNone

EvaluateCost ==
    /\ cost_out = PyNone
    /\ cost_out' = PyInt(CallCost(cost_in))
    /\ UNCHANGED <<cost_in, self, expected, pc, circuits, arg0, circuits_, opts,
                   trans_circs, i, trans_qc, costs, best_pos, deflated, result,
                   raised, log>>

NextCost == EvaluateCost

SpecCost == InitCost /\ [][NextCost]_vars

(***************************************************************************)
(* Properties                                                              *)
(***************************************************************************)
\* The input circuit a working circuit stems from.
RECURSIVE Origin(_)
Origin(c) ==
    IF "padded" \in DOMAIN c THEN Origin(c.padded)
    ELSE IF "deflated" \in DOMAIN c THEN Origin(c.deflated)
    ELSE IF "from" \in DOMAIN c THEN Origin(c.from)
    ELSE c

IsVendorCall(e) == e.op = "compiler.transpile"
IsPinnedRun(e) == IsVendorCall(e) /\ "initial_layout" \in DOMAIN e.kwargs
IsSeedRun(e) == IsVendorCall(e) /\ ~IsPinnedRun(e)
IsMapomatic(e) ==
    e.op \in {"mapomatic.deflate_circuit", "mapomatic.matching_layouts",
              "mapomatic.evaluate_layouts"}
IsRelayout(e) == IsMapomatic(e) \/ IsPinnedRun(e)
IsPlanRun(e) == e.op = "dd_passmanager.run"
IsPlanBuild(e) == e.op = "PassManager"
IsBackendQuery(e) ==
    e.op \in {"InstructionDurations.from_backend", "backend.configuration"}

\* Kinds of external calls.
IsKind(kind, e) ==
    CASE kind = "seed_run"   -> IsSeedRun(e)
      [] kind = "pinned_run" -> IsPinnedRun(e)
      [] kind = "relayout"   -> IsRelayout(e)
      [] kind = "plan_run"   -> IsPlanRun(e)
      [] kind = "plan_build" -> IsPlanBuild(e)
      [] kind = "query"      -> IsBackendQuery(e)

CountLog(kind) == Cardinality({k \in 1..Len(log) : IsKind(kind, log[k])})

SeedsShort ==
    /\ self.seed_transpiler # PyNone
    /\ Len(self.seed_transpiler.elems) < self.num_transpilations

\* C1: transpile returns a value of the shape of its input: one circuit for
\* one circuit, and for any ordered sequence of N circuits, whatever its
\* type, a sequence of N circuits with output k derived from input k.
C1_ShapeMirrorsInput ==
    pc = "done" =>
        IF IsSequence(circuits)
        THEN /\ result.py \in SeqTypes
             /\ Len(result.elems) = Len(circuits.elems)
             /\ \A k \in 1..Len(circuits.elems) :
                    Origin(result.elems[k]) = circuits.elems[k]
        ELSE /\ result.py = "QuantumCircuit"
             /\ Origin(result) = circuits

\* C2: after each iteration of step 1 the kept candidate is one of the
\* num_transpilations candidates of that run, its cost is at most the cost
\* of every candidate, and no earlier candidate has the same cost.
C2_KeepsFirstMinimum ==
    (pc = "step1" /\ i > 0) =>
        /\ Len(trans_qc) = opts.num_transpilations
        /\ Len(costs) = Len(trans_qc)
        /\ \A k \in 1..Len(costs) :
              costs[k] = cost_transpile_call(opts.cost_transpile, trans_qc[k])
        /\ best_pos \in 1..Len(costs)
        /\ trans_circs[i] = trans_qc[best_pos]
        /\ \A k \in 1..Len(costs) : costs[best_pos] <= costs[k]
        /\ \A k \in 1..(best_pos - 1) : costs[k] > costs[best_pos]

C2_Witness ==
    /\ pc = "step1"
    /\ i > 0
    /\ Len(costs) >= 2
    /\ costs[1] = costs[2]
    /\ best_pos = 1
    /\ trans_circs[i].run = 1

\* C3: with a supplied seed list shorter than num_transpilations a call
\* fails on the precondition with no external call made and no result.
C3_ShortSeedsFailFirst ==
    (SeedsShort /\ pc # "idle") =>
        /\ pc = "failed"
        /\ raised = "AssertionError"
        /\ log = <<>>
        /\ trans_circs = <<>>
        /\ result = PyNone

C3_Witness ==
    /\ pc = "failed"
    /\ raised = "AssertionError"
    /\ SeedsShort
    /\ self.apply_dd
    /\ self.dd_passmanager = PyNone
    /\ self.apply_mapomatic
    /\ Len(circuits_) >= 1

\* C4: every repeated-seed vendor call is handed num_transpilations copies
\* of the circuit and as many seeds as copies, run k getting seed k of the
\* configured list (none when the list is absent).
C4_SeedsMatchRuns ==
    /\ \A n \in 1..Len(log) :
          IsSeedRun(log[n]) =>
              /\ log[n].copies = self.num_transpilations
              /\ Len(log[n].kwargs.seed_transpiler.elems) = log[n].copies
    /\ \A k \in 1..Len(trans_qc) :
          trans_qc[k].seed_transpiler =
              IF self.seed_transpiler = PyNone THEN PyNone
              ELSE self.seed_transpiler.elems[k]

\* The stage of transpile an external call belongs to.
Stage(e) ==
    IF IsPlanBuild(e) \/ IsBackendQuery(e) THEN 0
    ELSE IF IsSeedRun(e) THEN 1
    ELSE IF IsRelayout(e) THEN 2
    ELSE 3

\* The circuits of the batch that call n of log or an earlier one of the
\* kind P was made for.
DoneBefore(kind, n) ==
    {log[m].idx : m \in {k \in 1..(n - 1) : IsKind(kind, log[k])}}

Batch == 1..Len(circuits_)

\* C5: the stages of a call run in a fixed order over the whole batch: a
\* re-layout operation starts only after the repeated-seed run of every
\* circuit, a plan is applied only after the pinned re-run of every circuit
\* (when re-layout is on); re-layout happens only with apply_mapomatic,
\* decoupling only with apply_dd, and with both off what is returned is the
\* selection of step 1.
C5_StagesInOrder ==
    /\ \A n \in 1..Len(log) :
          /\ IsRelayout(log[n]) =>
                /\ opts.apply_mapomatic
                /\ DoneBefore("seed_run", n) = Batch
          /\ IsPlanRun(log[n]) =>
                /\ opts.apply_dd
                /\ DoneBefore("seed_run", n) = Batch
                /\ opts.apply_mapomatic => DoneBefore("pinned_run", n) = Batch
                /\ ~opts.apply_mapomatic => DoneBefore("relayout", n) = {}
          /\ n > 1 => Stage(log[n - 1]) <= Stage(log[n])
    /\ pc \in {"return", "done"} =>
          /\ CountLog("seed_run") = Len(circuits_)
          /\ CountLog("pinned_run") = IF opts.apply_mapomatic THEN Len(circuits_) ELSE 0
          /\ CountLog("plan_run") = IF opts.apply_dd THEN Len(circuits_) ELSE 0
          /\ (~opts.apply_mapomatic /\ ~opts.apply_dd) =>
                \A k \in Batch :
                    /\ trans_circs[k].from = circuits_[k]
                    /\ "run" \in DOMAIN trans_circs[k]
                    /\ trans_circs[k].initial_layout = PyNone

C5_Witness ==
    /\ pc = "return"
    /\ opts.apply_mapomatic
    /\ opts.apply_dd
    /\ Len(circuits_) >= 2
    /\ CountLog("plan_run") = Len(circuits_)
    /\ CountLog("pinned_run") = Len(circuits_)

\* The plan a call has to apply: the supplied one, or else one built from
\* the backend the pipeline has when the call is made.
PlanOfCall ==
    IF expected.dd_passmanager = PyNone
    THEN get_pass_manager(expected.backend)
    ELSE expected.dd_passmanager

PastLine147 == pc \in {"step1", "deflate", "relayout", "dd", "return", "done"}

\* C6: a call with apply_dd on and no plan supplied at construction has
\* built exactly one plan by the time its first circuit is transpiled,
\* whatever the batch size, builds no other, and applies that plan to every
\* circuit; every call starts with nothing built; with a plan supplied or
\* apply_dd off no plan is built and the backend is not queried for one.
C6_OnePlanPerCall ==
    /\ pc = "line145" => log = <<>>
    /\ PastLine147 =>
          IF expected.apply_dd /\ expected.dd_passmanager = PyNone
          THEN /\ CountLog("plan_build") = 1
               /\ opts.dd_passmanager = get_pass_manager(expected.backend)
          ELSE /\ CountLog("plan_build") = 0
               /\ CountLog("query") = 0
               /\ opts.dd_passmanager = expected.dd_passmanager
    /\ \A n \in 1..Len(log) : IsPlanRun(log[n]) => log[n].plan = PlanOfCall

C6_Witness ==
    /\ pc = "done"
    /\ expected.apply_dd
    /\ expected.dd_passmanager = PyNone
    /\ Len(circuits_) >= 2
    /\ CountLog("plan_build") = 1
    /\ CountLog("plan_run") = Len(circuits_)

\* C8: every vendor transpile call of a transpile call is handed the
\* configured optimization_level, the pinned re-run of the re-layout too.
C8_LevelOnEveryVendorCall ==
    \A n \in 1..Len(log) :
        IsVendorCall(log[n]) =>
            /\ "optimization_level" \in DOMAIN log[n].kwargs
            /\ log[n].kwargs.optimization_level = PyInt(self.optimization_level)

\* C9: after the backend is set, the pipeline holds the new backend and
\* every other field as before (a supplied plan is kept); every vendor
\* call, layout-matcher call and plan build of a later transpile call is
\* made for the new backend, and the plan applied is the supplied one or
\* one built from the new backend.
C9_BackendSetterFrame ==
    /\ self.backend = expected.backend
    /\ \A f \in DOMAIN self \ {"backend"} : self[f] = expected[f]
    /\ pc \notin {"idle", "failed"} => opts.backend = expected.backend
    /\ \A n \in 1..Len(log) :
          /\ "backend" \in DOMAIN log[n] => log[n].backend = expected.backend
          /\ IsPinnedRun(log[n]) =>
                /\ log[n].kwargs.initial_layout.backend = expected.backend
                /\ log[n].kwargs.initial_layout.scored_on = expected.backend
          /\ IsPlanRun(log[n]) =>
                IF expected.dd_passmanager = PyNone
                THEN /\ log[n].plan.durations = expected.backend
                     /\ log[n].plan.pulse_alignment = expected.backend
                ELSE log[n].plan = SuppliedPlan

C9_Witness ==
    /\ pc = "return"
    /\ self.backend = "backend_b"
    /\ opts.apply_mapomatic
    /\ opts.apply_dd
    /\ Len(circuits_) >= 1
    /\ CountLog("plan_run") = Len(circuits_)

\* C10: no step of a transpile call, returning or raising, changes a field
\* of the pipeline or the caller's input; the pipeline's fields are always
\* those it was constructed with, the backend being the one last set.
C10_TranspileLeavesStateUnchanged ==
    /\ [](self = expected)
    /\ [][(pc # "idle" \/ pc' # "idle") => self' = self]_vars
    /\ [][(pc # "idle" /\ pc' # "idle") => (circuits' = circuits /\ circuits = arg0)]_vars

C10_Witness ==
    /\ pc = "done"
    /\ self.apply_dd
    /\ expected.dd_passmanager = PyNone
    /\ circuits.py = "list"
    /\ Len(circuits.elems) >= 2
    /\ result.py = "list"
    /\ circuits = arg0

\* C7: transpile_cost_depthcnot returns weight_depth * depth + weight_cnot *
\* (number of cx gates), the weights defaulting to 1 and 20; the two-CNOT
\* circuit of depth 2 costs 42 with the default weights.
C7_CostIsWeightedSum ==
    cost_out # PyNone =>
        LET data == cost_in.circuit.data
            wd   == IF "weight_depth" \in DOMAIN cost_in THEN cost_in.weight_depth ELSE 1
            wc   == IF "weight_cnot" \in DOMAIN cost_in THEN cost_in.weight_cnot ELSE 20
            cxs  == Cardinality({k \in 1..Len(data) : data[k].name = "cx"})
        IN  /\ cost_out = PyInt(wd * depth(cost_in.circuit) + wc * cxs)
            /\ (cost_in = [circuit |-> TWO_CNOTS]) => cost_out = PyInt(42)
            /\ (cxs = 0 /\ DOMAIN cost_in = {"circuit"}) =>
                  cost_out = PyInt(Max({Cardinality({k \in 1..Len(data) :
                                                        data[k].qubits = <<q>>}) :
                                        q \in {0, 1}}))

C7_Witness ==
    /\ cost_in = [circuit |-> TWO_CNOTS]
    /\ depth(TWO_CNOTS) = 2
    /\ cost_out = PyInt(42)

====
